---- MODULE Spec2Model ----
(***************************************************************************)
(* Model of vault-manager's reconciliation core:                           *)
(*   - package toplevel: the process-wide registry of Configurations,      *)
(*     RegisterConfiguration and Apply, with its sync.RWMutex;             *)
(*   - package audit: entry (Key, Equals, enable, disable) and             *)
(*     config.Apply, the handler registered as "vault_audit_backends";     *)
(*   - package vault (pkg/vault, not among the sources): DiffItems,        *)
(*     EqualPathNames and OptionsEqual, modelled from the specification.   *)
(* Goroutines are the processes of Procs; every lock operation, map        *)
(* access and remote call is one step.                                     *)
(***************************************************************************)
EXTENDS Integers, Sequences, FiniteSets, TLC

VARIABLES
    configs,        \* toplevel.configs: map from name to Configuration
    readers,        \* goroutines holding configsM for reading
    writer,         \* goroutine holding configsM for writing, or None
    remote,         \* the Vault instance's enabled audit devices
    exited,         \* the process has ended (logrus Fatal, or an unrecovered panic)
    fatal,          \* what the ending log line carried
    pc,             \* each goroutine's position
    name,           \* argument name of the running call
    carg,           \* argument c of RegisterConfiguration
    cfg,            \* argument cfg / entriesBytes of Apply
    dryRun,         \* argument dryRun of Apply
    outcome,        \* "panic" while the goroutine's call unwinds a panic, "fatal" once it has called Fatal
    c,              \* local c of toplevel.Apply: the Configuration looked up
    hargs,          \* the arguments the Configuration's Apply was called with
    entries,        \* local entries of config.Apply
    existingAudits, \* local existingAudits of config.Apply
    toBeWritten,    \* local toBeWritten of config.Apply
    toBeDeleted,    \* local toBeDeleted of config.Apply
    idx,            \* position of the running range loop
    issued          \* mutating remote calls the running pass has issued

vars == <<configs, readers, writer, remote, exited, fatal, pc, name, carg, cfg,
          dryRun, outcome, c, hargs, entries, existingAudits, toBeWritten, toBeDeleted,
          idx, issued>>

argVars == <<name, carg, cfg, dryRun>>
lockVars == <<readers, writer>>
exitVars == <<exited, fatal>>
passVars == <<entries, existingAudits, toBeWritten, toBeDeleted, idx, issued>>

-----------------------------------------------------------------------------
(* Bounds *)

\* longest name passed to the registry
MaxNameLen == 1
\* number of distinct audit paths
NumPaths == 2
\* longest decoded configuration
MaxLen == 2

-----------------------------------------------------------------------------
(* Values *)

Procs == {"g1", "g2"}
None == "none"
Nil == "nil"

\* Configurations that can be handed to RegisterConfiguration: the audit
\* package's config{}, some other package's handler, or nil.
Audit == "audit.config"
Other == "other.config"
Handlers == {Audit, Other}

\* A name is a sequence of characters; "v" abbreviates the lower-case text
\* vault_audit_backends, "V" the same text with upper-case letters.
NameChars == {"v", "V"}

RECURSIVE SeqsUpTo(_, _)
SeqsUpTo(S, n) ==
    IF n = 0 THEN {<<>>}
    ELSE LET shorter == SeqsUpTo(S, n - 1)
         IN  shorter \cup {Append(s, x) : s \in {t \in shorter : Len(t) = n - 1}, x \in S}

Names == SeqsUpTo(NameChars, MaxNameLen)

Range(s) == {s[i] : i \in 1..Len(s)}

\* strings.ToLower on one character
LowerChar(ch) == IF ch = "V" THEN "v" ELSE ch

\* strings.ToLower
ToLower(nm) == [i \in 1..Len(nm) |-> LowerChar(nm[i])]

AuditName == <<"v">>

AllPaths == <<"/audit1", "/audit2", "/audit3", "/audit4">>
Paths == {AllPaths[i] : i \in 1..NumPaths}

\* Options maps are sets of <<key, value>> pairs with unique keys.
NoOptions == {}
FileOptions == {<<"path", "/tmp/a">>}

\* type entry struct: the shapes an audit device takes in the model; they
\* differ from one another in the non-key fields
Shapes ==
    { [Type |-> "file",   Description |-> "",  Options |-> NoOptions],
      [Type |-> "file",   Description |-> "",  Options |-> FileOptions],
      [Type |-> "syslog", Description |-> "d", Options |-> NoOptions] }

Entries ==
    { [Path |-> p, Type |-> s.Type, Description |-> s.Description, Options |-> s.Options]
        : p \in Paths, s \in Shapes }

\* func (e entry) Key() string
Key(e) == e.Path

UniqueKeys(s) == \A i, j \in 1..Len(s) : Key(s[i]) = Key(s[j]) => i = j

\* item sequences with unique keys, as the decoded configuration and the
\* listing of the remote both are
ItemSeqs == {s \in SeqsUpTo(Entries, MaxLen) : UniqueKeys(s)}

\* the states of the remote: sets of audit devices, one per path at most
RemoteStates ==
    {S \in SUBSET Entries : \A a, b \in S : a.Path = b.Path => a = b}

\* entriesBytes: either text yaml.Unmarshal rejects, or the text of a list of entries
Malformed == [valid |-> FALSE, entries |-> <<>>]
Cfgs == {Malformed} \cup {[valid |-> TRUE, entries |-> s] : s \in ItemSeqs}

-----------------------------------------------------------------------------
(* Items: Key, Equals and the diff *)

\* vault.EqualPathNames: path names agree
EqualPathNames(x, y) == x = y

\* value of key k in options map m, or Nil
OptionValue(m, k) == IF \E kv \in m : kv[1] = k THEN (CHOOSE kv \in m : kv[1] = k)[2] ELSE Nil

\* func (e entry) ambiguousOptions(): a copy of e.Options typed map[string]interface{}
ambiguousOptions(e) == {<<kv[1], kv[2]>> : kv \in e.Options}

\* vault.OptionsEqual: same number of options, and each option's canonical
\* form is the same on both sides
OptionsEqual(xopts, yopts) ==
    /\ Cardinality(xopts) = Cardinality(yopts)
    /\ \A kv \in xopts : OptionValue(yopts, kv[1]) = kv[2]

\* Equals leaving the options out of the comparison
EqualsNoOptions(e, i) ==
    /\ EqualPathNames(e.Path, i.Path)
    /\ e.Type = i.Type
    /\ e.Description = i.Description

\* Equals whose type assertion never succeeds
EqualsNever(e, i) == FALSE

\* Equals comparing the type with the wrong field of the other entry
EqualsWrongField(e, i) ==
    /\ EqualPathNames(e.Path, i.Path)
    /\ e.Type = i.Description
    /\ e.Description = i.Description
    /\ OptionsEqual(ambiguousOptions(e), ambiguousOptions(i))

\* func (e entry) Equals(i interface{}) bool; every item here is an entry, so
\* the type assertion succeeds
Equals(e, i) ==
    /\ EqualPathNames(e.Path, i.Path)
    /\ e.Type = i.Type
    /\ e.Description = i.Description
    /\ OptionsEqual(ambiguousOptions(e), ambiguousOptions(i))

\* index of the first item of s whose key is k, 0 when there is none
FindKey(s, k) ==
    IF \E i \in 1..Len(s) : Key(s[i]) = k
    THEN CHOOSE i \in 1..Len(s) : Key(s[i]) = k /\ \A j \in 1..(i - 1) : Key(s[j]) # k
    ELSE 0

\* step 1 of the diff: d is new, or the observed item with its key differs
NeedsWrite(d, observed) ==
    LET i == FindKey(observed, Key(d))
    IN  i = 0 \/ ~Equals(d, observed[i])

\* step 2 of the diff: no desired item has o's key and equals o
NeedsDelete(o, desired) ==
    ~\E j \in 1..Len(desired) : Key(desired[j]) = Key(o) /\ Equals(desired[j], o)

\* vault.DiffItems(desired, observed) (toWrite, toDelete)
DiffItems(desired, observed) ==
    [ toWrite  |-> SelectSeq(desired, LAMBDA d : NeedsWrite(d, observed)),
      toDelete |-> SelectSeq(observed, LAMBDA o : NeedsDelete(o, desired)) ]

\* asItems whose loop stops one entry early
asItemsDropLast(xs) == [i \in 1..(Len(xs) - 1) |-> xs[i]]

\* func asItems(xs []entry) []vault.Item: the same entries, in order
asItems(xs) == [i \in 1..Len(xs) |-> xs[i]]

\* the orders in which ranging over the map ListAudit returns can visit it
Listings(S) ==
    {s \in SeqsUpTo(S, Cardinality(S)) : Len(s) = Cardinality(S) /\ Range(s) = S}

-----------------------------------------------------------------------------
(* State *)

NoConfigs == [k \in {} |-> Nil]
NoFatal == [msg |-> "", key |-> "", value |-> <<>>]
NoArgs == [entriesBytes |-> Malformed, dryRun |-> FALSE]

\* the configurations the goroutines of the concurrent runs pass to Apply:
\* text that does not decode, the text of no audit device, and the text of
\* one audit device
CallCfgs ==
    {Malformed} \cup
    {cf \in Cfgs : cf.valid /\ \A i \in 1..Len(cf.entries) :
                       i = 1 /\ cf.entries[i].Path = AllPaths[1]
                             /\ cf.entries[i].Options = FileOptions}

\* var configs = make(map[string]Configuration); var configsM sync.RWMutex
InitRegistry ==
    /\ configs = NoConfigs
    /\ readers = {}
    /\ writer = None

InitLocals ==
    /\ exited = FALSE
    /\ fatal = NoFatal
    /\ pc = [p \in Procs |-> "idle"]
    /\ name = [p \in Procs |-> <<>>]
    /\ carg = [p \in Procs |-> Nil]
    /\ cfg = [p \in Procs |-> Malformed]
    /\ dryRun = [p \in Procs |-> FALSE]
    /\ outcome = [p \in Procs |-> None]
    /\ c = [p \in Procs |-> Nil]
    /\ hargs = [p \in Procs |-> NoArgs]
    /\ entries = [p \in Procs |-> <<>>]
    /\ existingAudits = [p \in Procs |-> <<>>]
    /\ toBeWritten = [p \in Procs |-> <<>>]
    /\ toBeDeleted = [p \in Procs |-> <<>>]
    /\ idx = [p \in Procs |-> 0]
    /\ issued = [p \in Procs |-> <<>>]

\* the registry before any package has registered, and a Vault instance with
\* no audit device enabled
Init ==
    /\ InitRegistry
    /\ InitLocals
    /\ remote = {}

\* logrus ... Fatal(msg): the line is logged and os.Exit ends the process;
\* no deferred call runs
Fatal(p, msg, key, value) ==
    /\ exited' = TRUE
    /\ fatal' = [msg |-> msg, key |-> key, value |-> value]
    /\ pc' = [pc EXCEPT ![p] = "exit"]
    /\ outcome' = [outcome EXCEPT ![p] = "fatal"]

-----------------------------------------------------------------------------
(* toplevel.RegisterConfiguration *)

\* a goroutine calls RegisterConfiguration(name, c)
RegisterCall(p) ==
    /\ ~exited
    /\ pc[p] = "idle"
    /\ \E nm \in Names, h \in Handlers \cup {Nil} :
        /\ name' = [name EXCEPT ![p] = nm]
        /\ carg' = [carg EXCEPT ![p] = h]
    /\ pc' = [pc EXCEPT ![p] = "reg_lock"]
    /\ UNCHANGED <<configs, lockVars, remote, exitVars, cfg, dryRun, outcome, c, hargs, passVars>>

\* a mutex whose Lock never waits
CanLockShared == TRUE

\* sync.RWMutex: Lock succeeds when no goroutine holds the mutex
CanLock == writer = None /\ readers = {}

\* sync.RWMutex: RLock succeeds when no goroutine holds the mutex for writing
\* (Go may also make a reader wait behind a waiting writer, which only removes
\* interleavings)
CanRLock == writer = None

\* configsM.Lock()
RegLock(p) ==
    /\ ~exited
    /\ pc[p] = "reg_lock"
    /\ CanLock
    /\ writer' = p
    /\ pc' = [pc EXCEPT ![p] = "reg_check"]
    /\ UNCHANGED <<configs, readers, remote, exitVars, argVars, outcome, c, hargs, passVars>>

\* RegisterConfiguration keeping the name as given
RegKeyAsGiven(nm) == nm

\* name = strings.ToLower(name): the key RegisterConfiguration checks and stores
RegKey(nm) == ToLower(nm)

\* the argument checks with the nil check left out
RegInvalidNameOnly(p) == name[p] = <<>>

\* if name == "" { panic } and if c == nil { panic }
RegInvalid(p) == name[p] = <<>> \/ carg[p] = Nil

\* the duplicate check never finding a duplicate
RegDuplicateNever(p) == FALSE

\* if _, dup := configs[name]; dup { panic }
RegDuplicate(p) == RegKey(name[p]) \in DOMAIN configs

\* the three checks of RegisterConfiguration; a failing one panics
RegCheck(p) ==
    /\ ~exited
    /\ pc[p] = "reg_check"
    /\ IF RegInvalid(p) \/ RegDuplicate(p)
       THEN /\ outcome' = [outcome EXCEPT ![p] = "panic"]
            /\ pc' = [pc EXCEPT ![p] = "reg_unlock"]
       ELSE /\ pc' = [pc EXCEPT ![p] = "reg_store"]
            /\ UNCHANGED outcome
    /\ UNCHANGED <<configs, lockVars, remote, exitVars, argVars, c, hargs, passVars>>

\* configs[name] = c, name being the lower-cased name
RegStore(p) ==
    /\ ~exited
    /\ pc[p] = "reg_store"
    /\ configs' = [k \in DOMAIN configs \cup {RegKey(name[p])} |->
                      IF k = RegKey(name[p]) THEN carg[p] ELSE configs[k]]
    /\ pc' = [pc EXCEPT ![p] = "reg_unlock"]
    /\ UNCHANGED <<lockVars, remote, exitVars, argVars, outcome, c, hargs, passVars>>

\* defer configsM.Unlock(): runs on return and while a panic unwinds
RegUnlock(p) ==
    /\ ~exited
    /\ pc[p] = "reg_unlock"
    /\ writer' = None
    /\ IF outcome[p] = "panic"
       THEN /\ pc' = [pc EXCEPT ![p] = "panicking"]
            /\ UNCHANGED <<name, carg>>
       ELSE /\ pc' = [pc EXCEPT ![p] = "idle"]
            /\ name' = [name EXCEPT ![p] = <<>>]
            /\ carg' = [carg EXCEPT ![p] = Nil]
    /\ UNCHANGED <<configs, readers, remote, exitVars, cfg, dryRun, outcome, c, hargs, passVars>>

\* the panic reaches the caller, which recovers from it
PanicRecovered(p) ==
    /\ ~exited
    /\ pc[p] = "panicking"
    /\ pc' = [pc EXCEPT ![p] = "idle"]
    /\ outcome' = [outcome EXCEPT ![p] = None]
    /\ name' = [name EXCEPT ![p] = <<>>]
    /\ carg' = [carg EXCEPT ![p] = Nil]
    /\ UNCHANGED <<configs, lockVars, remote, exitVars, cfg, dryRun, c, hargs, passVars>>

\* the panic reaches the top of the goroutine and ends the process
PanicAborts(p) ==
    /\ ~exited
    /\ pc[p] = "panicking"
    /\ exited' = TRUE
    /\ fatal' = [msg |-> "panic", key |-> "name", value |-> RegKey(name[p])]
    /\ pc' = [pc EXCEPT ![p] = "exit"]
    /\ UNCHANGED <<configs, lockVars, remote, argVars, outcome, c, hargs, passVars>>

-----------------------------------------------------------------------------
(* toplevel.Apply *)

\* a goroutine calls Apply(name, cfg, dryRun) with name among names, cfg among cfgs
ApplyCallFrom(p, names, cfgs) ==
    /\ ~exited
    /\ pc[p] = "idle"
    /\ \E nm \in names, cf \in cfgs, dr \in BOOLEAN :
        /\ name' = [name EXCEPT ![p] = nm]
        /\ cfg' = [cfg EXCEPT ![p] = cf]
        /\ dryRun' = [dryRun EXCEPT ![p] = dr]
    /\ pc' = [pc EXCEPT ![p] = "apply_rlock"]
    /\ UNCHANGED <<configs, lockVars, remote, exitVars, carg, outcome, c, hargs, passVars>>

ApplyCall(p) == ApplyCallFrom(p, Names, CallCfgs)

\* configsM.RLock()
ApplyRLock(p) ==
    /\ ~exited
    /\ pc[p] = "apply_rlock"
    /\ CanRLock
    /\ readers' = readers \cup {p}
    /\ pc' = [pc EXCEPT ![p] = "apply_lookup"]
    /\ UNCHANGED <<configs, writer, remote, exitVars, argVars, outcome, c, hargs, passVars>>

\* the lookup with its ok result ignored: c, _ := configs[name]
LookupIgnoreOk(nm) ==
    [ok |-> TRUE, c |-> IF nm \in DOMAIN configs THEN configs[nm] ELSE Nil]

\* c, ok := configs[name]
Lookup(nm) ==
    IF nm \in DOMAIN configs
    THEN [ok |-> TRUE, c |-> configs[nm]]
    ELSE [ok |-> FALSE, c |-> Nil]

\* configsM.RUnlock() called before c.Apply instead of deferred
ReadersReleased(p) == readers \ {p}

\* defer configsM.RUnlock(): the read lock stays held when c.Apply is called
ReadersAtDispatch(p) == readers

\* c.Apply(cfg, dryRun): the arguments handed to the Configuration
DispatchArgs(p) == [entriesBytes |-> cfg[p], dryRun |-> dryRun[p]]

\* the lookup; Fatal when the name is absent, else the call of c.Apply
ApplyLookup(p) ==
    /\ ~exited
    /\ pc[p] = "apply_lookup"
    /\ LET r == Lookup(name[p])
       IN  IF ~r.ok
           THEN /\ Fatal(p, "failed to find top-level configuration", "name", name[p])
                /\ UNCHANGED <<readers, c, hargs>>
           ELSE /\ c' = [c EXCEPT ![p] = r.c]
                /\ hargs' = [hargs EXCEPT ![p] = DispatchArgs(p)]
                /\ readers' = ReadersAtDispatch(p)
                /\ pc' = [pc EXCEPT ![p] = IF r.c = Audit THEN "h_decode" ELSE "h_other"]
                /\ UNCHANGED <<exitVars, outcome>>
    /\ UNCHANGED <<configs, writer, remote, argVars, passVars>>

\* a Configuration of another package runs its Apply and returns
HOther(p) ==
    /\ ~exited
    /\ pc[p] = "h_other"
    /\ pc' = [pc EXCEPT ![p] = "apply_runlock"]
    /\ UNCHANGED <<configs, lockVars, remote, exitVars, argVars, outcome, c, hargs, passVars>>

\* defer configsM.RUnlock(), on return from Apply
ApplyRUnlock(p) ==
    /\ ~exited
    /\ pc[p] = "apply_runlock"
    /\ readers' = readers \ {p}
    /\ pc' = [pc EXCEPT ![p] = "idle"]
    /\ name' = [name EXCEPT ![p] = <<>>]
    /\ cfg' = [cfg EXCEPT ![p] = Malformed]
    /\ dryRun' = [dryRun EXCEPT ![p] = FALSE]
    /\ c' = [c EXCEPT ![p] = Nil]
    /\ hargs' = [hargs EXCEPT ![p] = NoArgs]
    /\ entries' = [entries EXCEPT ![p] = <<>>]
    /\ existingAudits' = [existingAudits EXCEPT ![p] = <<>>]
    /\ toBeWritten' = [toBeWritten EXCEPT ![p] = <<>>]
    /\ toBeDeleted' = [toBeDeleted EXCEPT ![p] = <<>>]
    /\ idx' = [idx EXCEPT ![p] = 0]
    /\ issued' = [issued EXCEPT ![p] = <<>>]
    /\ UNCHANGED <<configs, writer, remote, exitVars, carg, outcome>>

-----------------------------------------------------------------------------
(* audit.config.Apply *)

\* yaml.Unmarshal(entriesBytes, &entries)
HDecode(p) ==
    /\ ~exited
    /\ pc[p] = "h_decode"
    /\ IF ~hargs[p].entriesBytes.valid
       THEN /\ Fatal(p, "failed to decode Audit Devices configuration", "error", <<>>)
            /\ UNCHANGED entries
       ELSE /\ entries' = [entries EXCEPT ![p] = hargs[p].entriesBytes.entries]
            /\ pc' = [pc EXCEPT ![p] = "h_list"]
            /\ UNCHANGED <<exitVars, outcome>>
    /\ UNCHANGED <<configs, lockVars, remote, argVars, c, hargs, existingAudits,
                   toBeWritten, toBeDeleted, idx, issued>>

\* ListAudit() and the loop building existingAudits; the call can fail
HList(p) ==
    /\ ~exited
    /\ pc[p] = "h_list"
    /\ \/ /\ Fatal(p, "failed to list Audit Devices from Vault instance", "error", <<>>)
          /\ UNCHANGED existingAudits
       \/ /\ \E l \in Listings(remote) :
                existingAudits' = [existingAudits EXCEPT ![p] = l]
          /\ pc' = [pc EXCEPT ![p] = "h_diff"]
          /\ UNCHANGED <<exitVars, outcome>>
    /\ UNCHANGED <<configs, lockVars, remote, argVars, c, hargs, entries,
                   toBeWritten, toBeDeleted, idx, issued>>

\* the dry-run test never taken
IsDryRunNever(p) == FALSE

\* if dryRun == true
IsDryRun(p) == hargs[p].dryRun = TRUE

\* where config.Apply goes after the diff has returned w and d
\* the loop over toBeDeleted run first
AfterDiffDeleteFirst(p, w, d) ==
    IF IsDryRun(p) THEN "h_dryrun"
    ELSE IF Len(d) > 0 THEN "h_delete"
    ELSE IF Len(w) > 0 THEN "h_write"
    ELSE "apply_runlock"

AfterDiff(p, w, d) ==
    IF IsDryRun(p) THEN "h_dryrun"
    ELSE IF Len(w) > 0 THEN "h_write"
    ELSE IF Len(d) > 0 THEN "h_delete"
    ELSE "apply_runlock"

\* the diff called with its arguments exchanged
DiffCallSwapped(p) == DiffItems(asItems(existingAudits[p]), asItems(entries[p]))

\* vault.DiffItems(asItems(entries), asItems(existingAudits))
DiffCall(p) == DiffItems(asItems(entries[p]), asItems(existingAudits[p]))

\* toBeWritten, toBeDeleted := vault.DiffItems(...), then the dryRun branch
HDiff(p) ==
    /\ ~exited
    /\ pc[p] = "h_diff"
    /\ LET r == DiffCall(p)
       IN  /\ toBeWritten' = [toBeWritten EXCEPT ![p] = r.toWrite]
           /\ toBeDeleted' = [toBeDeleted EXCEPT ![p] = r.toDelete]
           /\ pc' = [pc EXCEPT ![p] = AfterDiff(p, r.toWrite, r.toDelete)]
    /\ idx' = [idx EXCEPT ![p] = 1]
    /\ UNCHANGED <<configs, lockVars, remote, exitVars, argVars, outcome, c, hargs,
                   entries, existingAudits, issued>>

\* the dry-run branch: both loops only log
HDryRun(p) ==
    /\ ~exited
    /\ pc[p] = "h_dryrun"
    /\ pc' = [pc EXCEPT ![p] = "apply_runlock"]
    /\ UNCHANGED <<configs, lockVars, remote, exitVars, argVars, outcome, c, hargs, passVars>>

\* EnableAuditWithOptions(e.Path, ...) succeeding: the device is at e.Path
EnableAudit(r, e) == {x \in r : x.Path # e.Path} \cup {e}

\* DisableAudit(path) succeeding: no device is at path
DisableAudit(r, path) == {x \in r : x.Path # path}

\* config.Apply returning when the loop over toBeWritten ends
AfterWritesReturn(p) == "apply_runlock"

\* where config.Apply goes when the loop over toBeWritten ends
AfterWrites(p) == IF Len(toBeDeleted[p]) > 0 THEN "h_delete" ELSE "apply_runlock"

\* the range loop over toBeWritten moves to its next entry, or ends
NextWrite(p) ==
    IF idx[p] < Len(toBeWritten[p])
    THEN /\ idx' = [idx EXCEPT ![p] = @ + 1]
         /\ UNCHANGED pc
    ELSE /\ idx' = [idx EXCEPT ![p] = 1]
         /\ pc' = [pc EXCEPT ![p] = AfterWrites(p)]

\* the error of the enable call logged, the loop going on
OnEnableErrorLogged(p, e) ==
    /\ remote' = remote
    /\ NextWrite(p)
    /\ UNCHANGED <<exitVars, outcome>>

\* entry.enable, err != nil: Fatal; nothing done so far is undone
OnEnableError(p, e) ==
    /\ Fatal(p, "failed to enable audit device", "path", <<e.Path>>)
    /\ UNCHANGED <<remote, idx>>

\* one iteration of: for _, e := range toBeWritten { e.(entry).enable(...) }
HEnable(p) ==
    /\ ~exited
    /\ pc[p] = "h_write"
    /\ LET e == toBeWritten[p][idx[p]]
       IN  /\ issued' = [issued EXCEPT ![p] = Append(@, [op |-> "enable", path |-> e.Path])]
           /\ \/ OnEnableError(p, e)
              \/ /\ remote' = EnableAudit(remote, e)
                 /\ NextWrite(p)
                 /\ UNCHANGED <<exitVars, outcome>>
    /\ UNCHANGED <<configs, lockVars, argVars, c, hargs, entries, existingAudits,
                   toBeWritten, toBeDeleted>>

\* one iteration of: for _, e := range toBeDeleted { e.(entry).disable(...) }
HDisable(p) ==
    /\ ~exited
    /\ pc[p] = "h_delete"
    /\ LET e == toBeDeleted[p][idx[p]]
       IN  /\ issued' = [issued EXCEPT ![p] = Append(@, [op |-> "disable", path |-> e.Path])]
           /\ \/ /\ Fatal(p, "failed to disable audit", "path", <<e.Path>>)
                 /\ UNCHANGED <<remote, idx>>
              \/ /\ remote' = DisableAudit(remote, e.Path)
                 /\ IF idx[p] < Len(toBeDeleted[p])
                    THEN /\ idx' = [idx EXCEPT ![p] = @ + 1]
                         /\ UNCHANGED pc
                    ELSE /\ idx' = [idx EXCEPT ![p] = 1]
                         /\ pc' = [pc EXCEPT ![p] = "apply_runlock"]
                 /\ UNCHANGED <<exitVars, outcome>>
    /\ UNCHANGED <<configs, lockVars, argVars, c, hargs, entries, existingAudits,
                   toBeWritten, toBeDeleted>>

-----------------------------------------------------------------------------
(* Specifications *)

\* the steps of toplevel.Apply itself
ApplySteps(p) ==
    \/ ApplyRLock(p)
    \/ ApplyLookup(p)
    \/ ApplyRUnlock(p)

\* the steps of audit.config.Apply
AuditSteps(p) ==
    \/ HDecode(p)
    \/ HList(p)
    \/ HDiff(p)
    \/ HDryRun(p)
    \/ HEnable(p)
    \/ HDisable(p)

\* goroutines registering Configurations and applying them concurrently
Next ==
    \E p \in Procs :
        \/ RegisterCall(p)
        \/ RegLock(p)
        \/ RegCheck(p)
        \/ RegStore(p)
        \/ RegUnlock(p)
        \/ PanicRecovered(p)
        \/ PanicAborts(p)
        \/ ApplyCall(p)
        \/ ApplySteps(p)
        \/ HOther(p)
        \/ AuditSteps(p)

Spec == Init /\ [][Next]_vars

\* the state after the audit package's init(): RegisterConfiguration(
\* "vault_audit_backends", config{}) has run
InitAudit ==
    /\ configs = [k \in {AuditName} |-> Audit]
    /\ readers = {}
    /\ writer = None
    /\ InitLocals
    /\ remote \in RemoteStates

Driver == "g1"

\* the registered name, the same name in upper case, and a name never registered
DriverNames == {AuditName, <<"V">>, <<>>}

\* the driver calls Apply(name, cfg, dryRun), with any configuration
DriverCall == ApplyCallFrom(Driver, DriverNames, Cfgs)

\* reconciliation passes of the audit devices, driven through the registry
\* one after the other
NextAudit ==
    \/ DriverCall
    \/ ApplySteps(Driver)
    \/ AuditSteps(Driver)

SpecAudit == InitAudit /\ [][NextAudit]_vars

\* the audit package registered, and the driver in its first call
\* Apply("vault_audit_backends", cfg, false), cfg being text that decodes
InitRerun ==
    /\ configs = [k \in {AuditName} |-> Audit]
    /\ readers = {}
    /\ writer = None
    /\ remote \in RemoteStates
    /\ exited = FALSE
    /\ fatal = NoFatal
    /\ pc = [p \in Procs |-> IF p = Driver THEN "apply_rlock" ELSE "idle"]
    /\ name = [p \in Procs |-> IF p = Driver THEN AuditName ELSE <<>>]
    /\ carg = [p \in Procs |-> Nil]
    /\ cfg \in {[p \in Procs |-> IF p = Driver THEN cf ELSE Malformed] :
                   cf \in {x \in Cfgs : x.valid}}
    /\ dryRun = [p \in Procs |-> FALSE]
    /\ outcome = [p \in Procs |-> None]
    /\ c = [p \in Procs |-> Nil]
    /\ hargs = [p \in Procs |-> NoArgs]
    /\ entries = [p \in Procs |-> <<>>]
    /\ existingAudits = [p \in Procs |-> <<>>]
    /\ toBeWritten = [p \in Procs |-> <<>>]
    /\ toBeDeleted = [p \in Procs |-> <<>>]
    /\ idx = [p \in Procs |-> 0]
    /\ issued = [p \in Procs |-> <<>>]

\* Apply returns (the deferred RUnlock runs) and the driver calls it again
\* with the same name, configuration and dryRun
Rerun(p) ==
    /\ ~exited
    /\ pc[p] = "apply_runlock"
    /\ readers' = readers \ {p}
    /\ pc' = [pc EXCEPT ![p] = "apply_rlock"]
    /\ c' = [c EXCEPT ![p] = Nil]
    /\ hargs' = [hargs EXCEPT ![p] = NoArgs]
    /\ entries' = [entries EXCEPT ![p] = <<>>]
    /\ existingAudits' = [existingAudits EXCEPT ![p] = <<>>]
    /\ toBeWritten' = [toBeWritten EXCEPT ![p] = <<>>]
    /\ toBeDeleted' = [toBeDeleted EXCEPT ![p] = <<>>]
    /\ idx' = [idx EXCEPT ![p] = 0]
    /\ issued' = [issued EXCEPT ![p] = <<>>]
    /\ UNCHANGED <<configs, writer, remote, exitVars, argVars, outcome>>

\* one fixed configuration applied again and again, not as a dry run
NextRerun ==
    \/ Rerun(Driver)
    \/ ApplyRLock(Driver)
    \/ ApplyLookup(Driver)
    \/ HDecode(Driver)
    \/ HList(Driver)
    \/ HDiff(Driver)
    \/ HEnable(Driver)
    \/ HDisable(Driver)

\* the driver's sequential code always takes its next step
SpecRerun == InitRerun /\ [][NextRerun]_vars /\ WF_vars(NextRerun)

-----------------------------------------------------------------------------
(* Properties of the registry *)

NotFoundMsg == "failed to find top-level configuration"

HandlerPcs == {"h_other", "h_decode", "h_list", "h_diff", "h_dryrun", "h_write", "h_delete"}

\* goroutine p is inside the Apply of the Configuration it looked up
InHandler(p) == pc[p] \in HandlerPcs

\* goroutine p is inside the critical section of RegisterConfiguration
InRegister(p) == pc[p] \in {"reg_check", "reg_store", "reg_unlock"}

\* goroutine p takes the step of Apply that looks its name up
LooksUp(p) == pc[p] = "apply_lookup" /\ pc'[p] # "apply_lookup"

\* every entry of the registry is still there, unchanged, after the step
EntriesKept == \A k \in DOMAIN configs : k \in DOMAIN configs' /\ configs'[k] = configs[k]

\* C1: Apply looks names up without regard to case: whenever Apply is called
\* with a name whose lower-case form is registered, the lookup dispatches to
\* the Configuration registered under that form and does not end the process.
C1_ApplyIgnoresCase ==
    [][\A p \in Procs :
          (LooksUp(p) /\ ToLower(name[p]) \in DOMAIN configs)
              => /\ ~exited'
                 /\ InHandler(p)'
                 /\ c'[p] = configs[ToLower(name[p])]]_vars

\* C2, as claimed: while a Configuration's Apply is executing, the goroutine
\* that dispatched it no longer holds the read lock.
C2_ReadLockReleasedDuringHandler ==
    \A p \in Procs : InHandler(p) => p \notin readers

\* C2, amended: the read lock is held through the whole of the
\* Configuration's Apply until the deferred RUnlock, so while it executes no
\* goroutine holds the write lock or is inside RegisterConfiguration's
\* critical section.
C2_ReadLockHeldThroughHandler ==
    \A p \in Procs :
        (InHandler(p) \/ pc[p] = "apply_runlock")
            => /\ p \in readers
               /\ writer = None
               /\ \A q \in Procs : ~InRegister(q)

\* a Configuration's Apply is executing while another goroutine's
\* RegisterConfiguration waits in Lock
C2_RegisterWaitsForHandler ==
    \E p, q \in Procs : InHandler(p) /\ pc[q] = "reg_lock" /\ ~exited

\* C4: a registration whose lower-cased name is already registered panics
\* and stores nothing, whatever the case of the name given, and no step ever
\* removes or replaces an entry of the registry.
C4_CollisionIgnoresCase ==
    [][/\ \A p \in Procs :
            (pc[p] = "reg_check" /\ pc'[p] # "reg_check"
                /\ ToLower(name[p]) \in DOMAIN configs)
                => /\ outcome'[p] = "panic"
                   /\ pc'[p] = "reg_unlock"
                   /\ configs' = configs
       /\ \A p \in Procs : outcome[p] = "panic" => pc'[p] # "reg_store"
       /\ EntriesKept]_vars

\* a registration under a name with upper-case letters has panicked, the
\* lower-cased name being registered, and has released the lock
C4_UpperCaseCollisionPanicked ==
    \E p \in Procs :
        /\ pc[p] = "panicking"
        /\ outcome[p] = "panic"
        /\ carg[p] # Nil
        /\ name[p] # ToLower(name[p])
        /\ ToLower(name[p]) \in DOMAIN configs
        /\ writer = None

\* C6: Apply with a name that has no entry in the registry ends the process,
\* logging that name; no Configuration's Apply is called, and the registry
\* and the remote are as they were.
C6_UnregisteredNameIsFatal ==
    [][\A p \in Procs :
          (LooksUp(p) /\ name[p] \notin DOMAIN configs)
              => /\ exited'
                 /\ fatal' = [msg |-> NotFoundMsg, key |-> "name", value |-> name[p]]
                 /\ pc'[p] = "exit"
                 /\ c' = c
                 /\ hargs' = hargs
                 /\ issued' = issued
                 /\ configs' = configs
                 /\ remote' = remote]_vars

\* Apply has ended the process over a name that is not registered, with
\* another Configuration registered and a device enabled on the remote
C6_AbortedOnMissingName ==
    \E p \in Procs :
        /\ pc[p] = "exit"
        /\ exited
        /\ fatal.msg = NotFoundMsg
        /\ fatal.value = name[p]
        /\ ToLower(name[p]) \notin DOMAIN configs
        /\ configs # NoConfigs
        /\ remote # {}

-----------------------------------------------------------------------------
(* Properties of the audit pass and of the diff *)

\* goroutine p has the result of the diff in toBeWritten and toBeDeleted
Diffed(p) ==
    \/ pc[p] \in {"h_dryrun", "h_write", "h_delete"}
    \/ pc[p] = "apply_runlock" /\ c[p] = Audit

\* goroutine p's audit pass has returned without a Fatal, not a dry run
AppliedPass(p) ==
    pc[p] = "apply_runlock" /\ c[p] = Audit /\ ~hargs[p].dryRun

\* some item of s has the key of x and equals it
MatchedIn(x, s) == \E j \in 1..Len(s) : Key(s[j]) = Key(x) /\ Equals(x, s[j])

\* C3: once a pass that is not a dry run has returned, every call having
\* succeeded, the remote holds exactly the desired devices: the same keys,
\* each device equal to the desired one.
C3_RemoteIsDesiredAfterPass ==
    AppliedPass(Driver)
        => /\ \A i \in 1..Len(entries[Driver]) :
                \E o \in remote : Key(o) = Key(entries[Driver][i])
                                  /\ Equals(entries[Driver][i], o)
           /\ \A o \in remote :
                \E i \in 1..Len(entries[Driver]) : Key(entries[Driver][i]) = Key(o)

\* C5: while Apply runs with dryRun true no enable and no disable call is
\* issued and the remote stays as it is.
C5_DryRunMutatesNothing ==
    [][\A p \in Procs :
          (dryRun[p] /\ pc[p] # "idle") => remote' = remote /\ issued'[p] = <<>>]_vars

\* a dry run has returned having found devices to write and devices to delete
C5_DryRunFoundDivergence ==
    /\ pc[Driver] = "apply_runlock"
    /\ dryRun[Driver]
    /\ c[Driver] = Audit
    /\ Len(toBeWritten[Driver]) > 0
    /\ Len(toBeDeleted[Driver]) > 0
    /\ issued[Driver] = <<>>

\* C7: a desired and an observed item with the same key that differ (in a
\* non-key field; Equals is false) are both reported: the desired one in
\* toBeWritten, the observed one in toBeDeleted.
C7_DriftIsWrittenAndDeleted ==
    \A p \in Procs : Diffed(p) =>
        \A i \in 1..Len(entries[p]), j \in 1..Len(existingAudits[p]) :
            LET d == entries[p][i]
                o == existingAudits[p][j]
            IN  (Key(d) = Key(o) /\ (d # o \/ ~Equals(d, o)))
                    => /\ d \in Range(toBeWritten[p])
                       /\ o \in Range(toBeDeleted[p])

\* the diff has met a key whose desired and observed devices differ
C7_DriftMet ==
    /\ Diffed(Driver)
    /\ \E i \in 1..Len(entries[Driver]), j \in 1..Len(existingAudits[Driver]) :
          /\ Key(entries[Driver][i]) = Key(existingAudits[Driver][j])
          /\ ~Equals(entries[Driver][i], existingAudits[Driver][j])
          /\ entries[Driver][i] \in Range(toBeWritten[Driver])

\* C8: the diff of a sequence with itself is empty on both sides, and a
\* desired item that an observed item of its key equals is in neither
\* toBeWritten nor toBeDeleted (nor is that observed item).
C8_EqualItemsAreLeftAlone ==
    \A p \in Procs : Diffed(p) =>
        /\ entries[p] = existingAudits[p]
              => toBeWritten[p] = <<>> /\ toBeDeleted[p] = <<>>
        /\ \A i \in 1..Len(entries[p]), j \in 1..Len(existingAudits[p]) :
              LET d == entries[p][i]
                  o == existingAudits[p][j]
              IN  (Key(d) = Key(o) /\ d = o)
                      => /\ d \notin Range(toBeWritten[p])
                         /\ o \notin Range(toBeDeleted[p])

\* the diff has run on a desired sequence of several items that is the
\* observed sequence
C8_DiffOfEqualSequences ==
    /\ Diffed(Driver)
    /\ Len(entries[Driver]) >= 2
    /\ entries[Driver] = existingAudits[Driver]

\* C9: toBeWritten is the subsequence of the desired items, in their order,
\* that no observed item of the same key equals; with nothing observed it is
\* the desired sequence and toBeDeleted is empty.
C9_ToWriteIsUnmatchedDesired ==
    \A p \in Procs : Diffed(p) =>
        /\ toBeWritten[p] =
              SelectSeq(entries[p], LAMBDA d : ~MatchedIn(d, existingAudits[p]))
        /\ existingAudits[p] = <<>>
              => toBeWritten[p] = entries[p] /\ toBeDeleted[p] = <<>>

\* the diff has kept several desired items, in order, with devices observed
C9_SeveralToWrite ==
    /\ Diffed(Driver)
    /\ Len(toBeWritten[Driver]) >= 2
    /\ existingAudits[Driver] # <<>>

\* C10: toBeDeleted is the subsequence of the observed items, in their
\* order, that no desired item of the same key equals; with nothing desired
\* it is the observed sequence and toBeWritten is empty.
C10_ToDeleteIsUnmatchedObserved ==
    \A p \in Procs : Diffed(p) =>
        /\ toBeDeleted[p] =
              SelectSeq(existingAudits[p],
                        LAMBDA o : ~\E i \in 1..Len(entries[p]) :
                                      Key(entries[p][i]) = Key(o)
                                      /\ Equals(entries[p][i], o))
        /\ entries[p] = <<>>
              => toBeDeleted[p] = existingAudits[p] /\ toBeWritten[p] = <<>>

\* the diff has kept several observed items with something desired
C10_SeveralToDelete ==
    /\ Diffed(Driver)
    /\ Len(toBeDeleted[Driver]) >= 2
    /\ entries[Driver] # <<>>

-----------------------------------------------------------------------------
(* Further properties of the registry *)

\* C11: a registration with an empty name or a nil Configuration panics and
\* leaves the registry as it is; the registry never has an entry under the
\* empty name nor an entry whose Configuration is nil.
C11_InvalidRegistrationPanics ==
    /\ [](/\ <<>> \notin DOMAIN configs
          /\ \A k \in DOMAIN configs : configs[k] # Nil)
    /\ [][\A p \in Procs :
            (pc[p] = "reg_check" /\ pc'[p] # "reg_check"
                /\ (name[p] = <<>> \/ carg[p] = Nil))
                => /\ outcome'[p] = "panic"
                   /\ pc'[p] = "reg_unlock"
                   /\ configs' = configs]_vars

\* a registration of a nil Configuration under a name not yet registered
\* has panicked and released the lock
C11_NilRegistrationPanicked ==
    \E p \in Procs :
        /\ pc[p] = "panicking"
        /\ carg[p] = Nil
        /\ name[p] # <<>>
        /\ ToLower(name[p]) \notin DOMAIN configs
        /\ writer = None

\* C12: the registry only grows: no step removes an entry or replaces its
\* Configuration, and every key stored is a non-empty lower-case name.
C12_RegistryOnlyGrows ==
    /\ [](\A k \in DOMAIN configs : k # <<>> /\ k = ToLower(k))
    /\ [][EntriesKept]_vars

\* an entry has outlived a later registration of another Configuration
\* under its name, while a goroutine is inside the Apply it dispatched
C12_EntryOutlivedCalls ==
    \E p, q \in Procs :
        /\ InHandler(p)
        /\ pc[q] = "panicking"
        /\ carg[q] # Nil
        /\ ToLower(name[q]) \in DOMAIN configs
        /\ configs[ToLower(name[q])] # carg[q]

-----------------------------------------------------------------------------
(* Further properties of the audit pass *)

EnableFailedMsg == "failed to enable audit device"
DisableFailedMsg == "failed to disable audit"

\* the remote calls a pass that is not a dry run makes when none fails: an
\* enable for each entry of toBeWritten, then a disable for each of toBeDeleted
PlannedCalls(p) ==
    [i \in 1..(Len(toBeWritten[p]) + Len(toBeDeleted[p])) |->
        IF i <= Len(toBeWritten[p])
        THEN [op |-> "enable", item |-> toBeWritten[p][i]]
        ELSE [op |-> "disable", item |-> toBeDeleted[p][i - Len(toBeWritten[p])]]]

\* a planned call as it is logged in issued
CallOf(x) == [op |-> x.op, path |-> x.item.Path]

\* the remote r after the first n of the calls have succeeded
RECURSIVE RemoteAfter(_, _, _)
RemoteAfter(r, calls, n) ==
    IF n = 0 THEN r
    ELSE LET prev == RemoteAfter(r, calls, n - 1)
             rest == {x \in prev : x.Path # calls[n].item.Path}
         IN  IF calls[n].op = "enable" THEN rest \cup {calls[n].item} ELSE rest

\* goroutine p's pass has ended the process on a failed enable or disable
FailedMutation(p) ==
    pc[p] = "exit" /\ fatal.msg \in {EnableFailedMsg, DisableFailedMsg}

\* C13: when an enable or disable call fails the pass stops there: the calls
\* issued are the planned calls up to the failing one, the calls before it
\* stay applied on the remote, and no step follows the Fatal.
C13_FailureStopsThePass ==
    /\ [](FailedMutation(Driver) =>
            LET n == Len(issued[Driver])
                planned == PlannedCalls(Driver)
            IN  /\ n >= 1
                /\ n <= Len(planned)
                /\ \A i \in 1..n : issued[Driver][i] = CallOf(planned[i])
                /\ fatal.value = <<issued[Driver][n].path>>
                /\ fatal.msg = IF issued[Driver][n].op = "enable"
                               THEN EnableFailedMsg ELSE DisableFailedMsg
                /\ remote = RemoteAfter(Range(existingAudits[Driver]), planned, n - 1))
    /\ [][~exited]_vars

\* a call has failed after earlier calls of the pass changed the remote and
\* with planned calls still to come
C13_FailedMidPass ==
    /\ FailedMutation(Driver)
    /\ Len(issued[Driver]) >= 2
    /\ Len(issued[Driver]) < Len(PlannedCalls(Driver))
    /\ remote # Range(existingAudits[Driver])

\* the remote holds exactly the devices of the driver's configuration
RemoteIsDesired == remote = Range(cfg[Driver].entries)

\* C14: applying one configuration again and again, no call failing, the
\* remote comes to hold exactly the desired devices, and from then on every
\* pass finds nothing to write and nothing to delete and issues no call.
C14_RerunsConverge ==
    <>[](\/ exited
         \/ /\ RemoteIsDesired
            /\ toBeWritten[Driver] = <<>>
            /\ toBeDeleted[Driver] = <<>>
            /\ issued[Driver] = <<>>)

\* a pass over a remote that already holds the desired devices, several of
\* them, has found nothing to do
C14_ConvergedPass ==
    /\ pc[Driver] = "apply_runlock"
    /\ ~dryRun[Driver]
    /\ Len(entries[Driver]) >= 2
    /\ RemoteIsDesired
    /\ toBeWritten[Driver] = <<>>
    /\ toBeDeleted[Driver] = <<>>
    /\ issued[Driver] = <<>>

-----------------------------------------------------------------------------
(* Dispatch and atomicity of the registry *)

\* goroutine p is inside toplevel.Apply
InApply(p) == pc[p] \in {"apply_rlock", "apply_lookup", "apply_runlock"} \/ InHandler(p)

\* the step is one of goroutine p
StepOf(p) == pc'[p] # pc[p] \/ idx'[p] # idx[p] \/ issued'[p] # issued[p]

\* the call of the Configuration is the lookup step and nothing else: the
\* arguments and the Configuration stay as they were while it runs, it ends
\* in the return of Apply or in the end of the process, and no step of
\* Apply changes the registry
DispatchFrame(p) ==
    /\ (InHandler(p)' /\ ~InHandler(p)) => LooksUp(p)
    /\ (InHandler(p) /\ StepOf(p)) => hargs'[p] = hargs[p] /\ c'[p] = c[p]
    /\ (InHandler(p) /\ ~InHandler(p)') => pc'[p] \in {"apply_runlock", "exit"}
    /\ (InApply(p) /\ StepOf(p)) => configs' = configs

\* for a name that is a key of the registry as it was given, the lookup calls
\* that key's Configuration, once, with the configuration bytes and the
\* dry-run flag Apply received, and the registry is left alone
StoredNameDispatches ==
    [][\A p \in Procs :
          /\ (LooksUp(p) /\ name[p] \in DOMAIN configs)
                => /\ InHandler(p)'
                   /\ c'[p] = configs[name[p]]
                   /\ hargs'[p] = [entriesBytes |-> cfg[p], dryRun |-> dryRun[p]]
          /\ DispatchFrame(p)]_vars

\* C15: Apply only dispatches: for a registered name, one whose lower-case
\* form has an entry, the lookup calls that entry's Configuration, once, with
\* the configuration bytes and the dry-run flag Apply received, and no step of
\* Apply changes the registry.
C15_ApplyOnlyDispatches ==
    [][\A p \in Procs :
          /\ (LooksUp(p) /\ ToLower(name[p]) \in DOMAIN configs)
                => /\ InHandler(p)'
                   /\ c'[p] = configs[ToLower(name[p])]
                   /\ hargs'[p] = [entriesBytes |-> cfg[p], dryRun |-> dryRun[p]]
          /\ DispatchFrame(p)]_vars

-----------------------------------------------------------------------------
(* The calls of a pass *)

\* the number of calls op of path k in the log s
CallCount(s, op, k) == Cardinality({i \in 1..Len(s) : s[i] = [op |-> op, path |-> k]})

\* the number of items of s whose key is k
ItemCount(s, k) == Cardinality({j \in 1..Len(s) : s[j].Path = k})

\* C16: a pass that is not a dry run and in which every call succeeded has
\* issued one enable call for each item of toBeWritten, one disable call for
\* each item of toBeDeleted and no other call, and the remote changes only in
\* the step of such a call.
C16_OneCallPerItem ==
    /\ [](AppliedPass(Driver) =>
            /\ \A k \in Paths :
                  /\ CallCount(issued[Driver], "enable", k) = ItemCount(toBeWritten[Driver], k)
                  /\ CallCount(issued[Driver], "disable", k) = ItemCount(toBeDeleted[Driver], k)
            /\ \A i \in 1..Len(issued[Driver]) :
                  /\ issued[Driver][i].op \in {"enable", "disable"}
                  /\ issued[Driver][i].path \in Paths
            /\ Len(issued[Driver]) = Len(toBeWritten[Driver]) + Len(toBeDeleted[Driver]))
    /\ [][remote' # remote => Len(issued'[Driver]) = Len(issued[Driver]) + 1]_vars

\* a pass has returned after enabling and after disabling devices
C16_WroteAndDeleted ==
    /\ AppliedPass(Driver)
    /\ Len(toBeWritten[Driver]) > 0
    /\ Len(toBeDeleted[Driver]) > 0
    /\ ~exited

\* C17: in a pass that is not a dry run the calls issued so far are the first
\* of: the enable calls of toBeWritten in its order, then the disable calls of
\* toBeDeleted in its order; so the enable of a drifted key comes before the
\* disable of that key.
C17_EnablesBeforeDisables ==
    (Diffed(Driver) /\ ~hargs[Driver].dryRun) =>
        LET log == issued[Driver]
            planned == PlannedCalls(Driver)
        IN  /\ Len(log) <= Len(planned)
            /\ \A i \in 1..Len(log) : log[i] = CallOf(planned[i])
            /\ \A i, j \in 1..Len(log) :
                  (log[i].op = "enable" /\ log[j].op = "disable") => i < j
            /\ (pc[Driver] = "h_delete" /\ ~exited) =>
                  Len(log) >= Len(toBeWritten[Driver])

\* the device of a drifted key has been enabled and the same path disabled
C17_DriftedKeyEnabledThenDisabled ==
    /\ Diffed(Driver)
    /\ ~hargs[Driver].dryRun
    /\ \E i, j \in 1..Len(issued[Driver]) :
          /\ i < j
          /\ issued[Driver][i].op = "enable"
          /\ issued[Driver][j].op = "disable"
          /\ issued[Driver][i].path = issued[Driver][j].path

-----------------------------------------------------------------------------
(* Atomicity of registration *)

\* goroutine p's call of RegisterConfiguration has passed its checks and
\* stored its Configuration
HasStored(p) == pc[p] = "reg_unlock" /\ outcome[p] # "panic"

\* C18: registrations are atomic. Between Lock and the deferred Unlock a
\* goroutine is alone in RegisterConfiguration, so the key it found free is
\* still free when it inserts; of two calls with valid arguments and names
\* equal in lower case the one that takes the lock first, the key being free,
\* stores, and the other, checking afterwards, panics; the deferred Unlock
\* releases the write lock after a store and after a panic.
C18_RegistrationIsAtomic ==
    /\ [](\A p \in Procs :
            /\ InRegister(p) => (writer = p /\ readers = {})
            /\ InRegister(p) => \A q \in Procs \ {p} : ~InRegister(q)
            /\ pc[p] = "reg_store" => RegKey(name[p]) \notin DOMAIN configs
            /\ HasStored(p) => configs[RegKey(name[p])] = carg[p]
            /\ pc[p] \in {"idle", "reg_lock", "panicking"} => writer # p)
    /\ [][\A p \in Procs :
            /\ (pc[p] = "reg_check" /\ pc'[p] # "reg_check") =>
                  IF name[p] # <<>> /\ carg[p] # Nil /\ RegKey(name[p]) \notin DOMAIN configs
                  THEN pc'[p] = "reg_store" /\ outcome'[p] # "panic"
                  ELSE pc'[p] = "reg_unlock" /\ outcome'[p] = "panic"
            /\ (pc[p] = "reg_store" /\ pc'[p] # "reg_store") =>
                  /\ pc'[p] = "reg_unlock"
                  /\ DOMAIN configs' = DOMAIN configs \cup {RegKey(name[p])}
                  /\ configs'[RegKey(name[p])] = carg[p]
                  /\ EntriesKept
            /\ (pc[p] = "reg_unlock" /\ pc'[p] # "reg_unlock") =>
                  /\ writer' = None
                  /\ pc'[p] = IF outcome[p] = "panic" THEN "panicking" ELSE "idle"
            /\ (InRegister(p) /\ pc'[p] = pc[p]) => configs' = configs /\ writer' = p]_vars

\* one call has stored its Configuration and still holds the lock while a
\* second call, of a name equal in lower case and another Configuration,
\* waits for the lock
C18_SecondCallWaits ==
    \E p, q \in Procs :
        /\ p # q
        /\ HasStored(p)
        /\ pc[q] = "reg_lock"
        /\ name[q] # name[p]
        /\ ToLower(name[q]) = ToLower(name[p])
        /\ carg[q] \notin {Nil, carg[p]}
        /\ configs[ToLower(name[q])] = carg[p]

====
